---- MODULE Spec2Model ----
(***************************************************************************)
(* Model of the SSH session multiplexer of ori-ssh-manager                 *)
(* (src-tauri/src/ssh.rs, src-tauri/src/sftp.rs).                          *)
(*                                                                         *)
(* Caller threads run connect / send_command / resize / disconnect and the *)
(* SFTP verbs of SshManager; every session has one reader thread.  Each    *)
(* action is one step of one of these threads between two points where     *)
(* another thread can observe or change shared state (a mutex acquisition, *)
(* an I/O call, an emit).                                                  *)
(***************************************************************************)
EXTENDS Integers, Sequences, FiniteSets, TLC

\* ---------------------------------------------------------------- bounds
NumCallers == 2     \* caller threads that invoke operations concurrently
MaxSessions == 2    \* channel ids Uuid::new_v4 can hand out
MaxOps == 4         \* threads put to work over the whole run: see Counted
MaxReads == 2       \* non-empty reads over the whole run
PayloadLen == 2     \* bytes of one write_all payload

BufSize == 2        \* the copy buffer of a transfer (32768 bytes), scaled down
MaxFileLen == 2 * BufSize
FileBytes == {1, 2}
RemotePaths == {"src", "dst"}
LocalPaths == {"file"}

MaxEntries == 3     \* entries in a listed directory
\* File names as sequences of character codes: "A", "a", "B", "b", "_", "aB"
FileNames == {<<65>>, <<97>>, <<66>>, <<98>>, <<95>>, <<97, 66>>}

MaxPathLen == 5     \* characters in a path given to get_parent_path
PathChars == {"/", "a", "b"}

ModeBits == 10      \* bits of a mode given to format_permissions (a u32 in the code)

Callers == 1..NumCallers
ChannelIds == 1..MaxSessions
NoSuchId == 0       \* a channel id string that no connect ever returned
None == 0           \* a mutex nobody holds
ReaderThread == NumCallers + 1   \* the reader thread of a session, as a mutex holder

\* The remote is scripted: its k-th non-empty read carries the counter k as the
\* byte 64 + k, every second one after a byte 255, which is never valid UTF-8.
RemoteChunk(k) == IF k % 2 = 1 THEN <<64 + k>> ELSE <<255, 64 + k>>

VARIABLES
    channels,      \* SshManager.channels: the keys of the HashMap
    regLock,       \* holder of the Mutex around SshManager.channels
    alive,         \* SshChannel.is_connected, per channel id
    blocking,      \* blocking mode of the ssh2 Session, per channel id
    sessLock,      \* holder of SshChannel.session's mutex
    chanLock,      \* holder of SshChannel.channel's mutex
    rpc,           \* position of the reader thread of each channel id
    readBuf,       \* buf[0..n] of the reader thread after a non-empty read
    readLog,       \* the non-empty reads of each reader thread, in order
    events,        \* what was emitted to the AppHandle, per channel id
    wire,          \* bytes written to each channel, tagged with the writing call
    pc,            \* position of each caller thread
    op,            \* the operation a caller thread runs or ran last
    cid,           \* its channel_id argument (or the id connect generated)
    ret,           \* the result of its last returned operation
    written,       \* bytes of the payload its write_all has put on the wire
    result,        \* resize: the saved result of request_pty_size
    callNo,        \* number of the call the caller thread runs or ran last
    ops,           \* threads put to work so far
    issued,        \* ids Uuid::new_v4 has generated
    known,         \* ids connect has returned to the UI
    disconnected,  \* ids for which a disconnect that removed the entry returned
    ioFailed,      \* write calls that ended with an I/O error
    via,           \* how the shell channel of each id was opened: "direct" or "jump"
    targetAuth,    \* whether the target host has accepted a login for the session
    path,          \* get_parent_path: the argument
    parent,        \* get_parent_path: the result, once computed
    remoteFs,      \* the files on the SFTP server, by remote path
    localFs,       \* the files on the local disk, by local path
    xfer,          \* the sftp_download / sftp_upload call in progress, and the last result
    dir_entries,   \* sftp_list_dir: what readdir returned, in the server's order
    listing,       \* sftp_list_dir: the ListDirResult, once returned
    list_path,     \* sftp_list_dir: the path argument
    sftp_server,   \* sftp_list_dir: the home directory the server reports, and which requests it fails
    perm,          \* format_permissions: the argument (a u32 mode)
    permissions    \* format_permissions: the string s, empty until the call has run

sessVars == <<channels, regLock, alive, blocking, sessLock, chanLock>>
readerVars == <<rpc, readBuf, readLog, events>>
callerVars == <<pc, op, cid, ret, written, result, callNo, ops>>
histVars == <<issued, known, disconnected, ioFailed>>
connVars == <<via, targetAuth>>
pathVars == <<path, parent>>
xferVars == <<remoteFs, localFs, xfer>>
listVars == <<dir_entries, listing, list_path, sftp_server>>
permVars == <<perm, permissions>>
pureVars == <<pathVars, xferVars, listVars, permVars>>
sideVars == <<connVars, pureVars>>
vars == <<sessVars, readerVars, wire, callerVars, histVars, sideVars>>

\* ------------------------------------------------------------ pure helpers

\* String::from_utf8_lossy on the bytes of a read: an invalid byte becomes U+FFFD.
Utf8Lossy(bytes) ==
    [i \in 1..Len(bytes) |-> IF bytes[i] < 128 THEN bytes[i] ELSE 65533]

\* Mutex::lock returns at once only when nobody holds the mutex.
MutexFreeBroken(m) == TRUE
MutexFree(m) == m = None

\* Uuid::new_v4: an id that was never generated before (ids are numbered in the
\* order they are generated).
Lowest(S) == {i \in S : \A j \in S : i <= j}
UuidReusable == Lowest(ChannelIds \ channels)
UuidNewV4 == Lowest(ChannelIds \ issued)

RECURSIVE SumLen(_, _)
SumLen(f, S) ==
    IF S = {} THEN 0
    ELSE LET i == CHOOSE j \in S : TRUE IN Len(f[i]) + SumLen(f, S \ {i})
ReadsDone == SumLen(readLog, ChannelIds)

PtyOutput(data) == [topic |-> "pty_output", data |-> data]
PtyClosed == [topic |-> "pty_closed", data |-> <<>>]

\* The ids a caller can pass: the ones the UI got from connect, or a stale string.
CallerIds == known \cup {NoSuchId}

ConnInit ==
    /\ via = [i \in ChannelIds |-> "none"]
    /\ targetAuth = [i \in ChannelIds |-> FALSE]

CoreInit ==
    /\ channels = {}
    /\ regLock = None
    /\ alive = [i \in ChannelIds |-> FALSE]
    /\ blocking = [i \in ChannelIds |-> TRUE]
    /\ sessLock = [i \in ChannelIds |-> None]
    /\ chanLock = [i \in ChannelIds |-> None]
    /\ rpc = [i \in ChannelIds |-> "none"]
    /\ readBuf = [i \in ChannelIds |-> <<>>]
    /\ readLog = [i \in ChannelIds |-> <<>>]
    /\ events = [i \in ChannelIds |-> <<>>]
    /\ wire = [i \in ChannelIds |-> <<>>]
    /\ pc = [t \in Callers |-> "idle"]
    /\ op = [t \in Callers |-> "none"]
    /\ cid = [t \in Callers |-> NoSuchId]
    /\ ret = [t \in Callers |-> "none"]
    /\ written = [t \in Callers |-> 0]
    /\ result = [t \in Callers |-> "none"]
    /\ callNo = [t \in Callers |-> 0]
    /\ ops = 0
    /\ issued = {}
    /\ known = {}
    /\ disconnected = {}
    /\ ioFailed = {}

\* An Option<String> that was not computed yet.
Unset == [unset |-> TRUE]

PathIdle ==
    /\ path = <<>>
    /\ parent = Unset

NoFile == [exists |-> FALSE, data |-> <<>>]
FileOf(d) == [exists |-> TRUE, data |-> d]
NoResult == [op |-> "none", ret |-> "none", total |-> 0]
XferIdleRec ==
    [pc |-> "idle", op |-> "none", pos |-> 0, n |-> 0, total |-> 0, ret |-> "none",
     cause |-> "none", prev |-> NoResult]

XferIdle ==
    /\ remoteFs = [p \in RemotePaths |-> NoFile]
    /\ localFs = [p \in LocalPaths |-> NoFile]
    /\ xfer = XferIdleRec

NotListed ==
    [done |-> FALSE, failed |-> FALSE, current_path |-> <<>>,
     parent_path |-> [some |-> FALSE, val |-> <<>>], entries |-> <<>>]
ServerOk(home) ==
    [home |-> home, dotFails |-> FALSE, canonFails |-> FALSE, readdirFails |-> FALSE]
ListIdle ==
    /\ dir_entries = <<>>
    /\ listing = NotListed
    /\ list_path = <<>>
    /\ sftp_server = ServerOk(<<"/">>)

PermIdle ==
    /\ perm = 0
    /\ permissions = <<>>

Init == CoreInit /\ ConnInit /\ PathIdle /\ XferIdle /\ ListIdle /\ PermIdle

\* Some steps touch nothing another thread reads: handing the result to the bridge
\* (pc "returned"), an emit of the reader thread (events[i] is written by reader i
\* alone), and the reader's is_connected = false (read by reader i alone; the only
\* other writer, disconnect, writes false too).  Each is the only step its thread
\* can take and every step of another thread commutes with it, so it is taken as
\* soon as it is enabled: every other step waits until none is pending.
LocalPending ==
    \/ \E t \in Callers : pc[t] = "returned"
    \/ \E i \in ChannelIds :
          rpc[i] \in {"output", "eof_mark", "err_mark", "eof_emit", "err_emit"}
Ready == ~LocalPending

\* A caller thread starts operation o on id i.  Caller threads are anonymous and
\* live for one operation: the call runs on the first free one.
Start(t, o, i) ==
    /\ Ready
    /\ pc[t] = "idle"
    /\ \A u \in Callers : pc[u] = "idle" => t <= u
    /\ op' = [op EXCEPT ![t] = o]
    /\ cid' = [cid EXCEPT ![t] = i]
    /\ written' = [written EXCEPT ![t] = 0]
    /\ result' = [result EXCEPT ![t] = "none"]

\* A caller thread returns r to the command bridge.
Return(t, r) ==
    /\ pc' = [pc EXCEPT ![t] = "returned"]
    /\ ret' = [ret EXCEPT ![t] = r]

Goto(t, p) == pc' = [pc EXCEPT ![t] = p]

\* ops counts the threads put to work: a caller thread whose call got past its
\* first step, and the reader thread a connect spawns.  A call that fails at its
\* first step changes nothing and is not counted.  The call takes the number of
\* its caller thread in that count.
Counted(t) ==
    /\ ops < MaxOps
    /\ ops' = ops + 1
    /\ callNo' = [callNo EXCEPT ![t] = ops + 1]
CountedWithReader(t) ==
    /\ ops + 1 < MaxOps
    /\ ops' = ops + 2
    /\ callNo' = [callNo EXCEPT ![t] = ops + 1]
NotCounted == UNCHANGED <<ops, callNo>>

callerLocals == <<op, cid, written, result, callNo, ops>>

\* ------------------------------------------------------------------ connect

\* connect, a step before the reader thread is spawned fails (address parse, TCP
\* connect, handshake, authentication, channel open, PTY request, shell start):
\* the `?` returns the error.
\* (ConnectFailLeavesReader: the failing step comes after thread::spawn)
ConnectFailLeavesReader(t) ==
    /\ Start(t, "connect", NoSuchId)
    /\ NotCounted
    /\ Return(t, "ConnectionFailed")
    /\ \E i \in UuidNewV4 : rpc' = [rpc EXCEPT ![i] = "check"]
    /\ UNCHANGED <<sessVars, readBuf, readLog, events, wire, histVars, sideVars>>
ConnectFail(t) ==
    /\ Start(t, "connect", NoSuchId)
    /\ NotCounted
    /\ Return(t, "ConnectionFailed")
    /\ UNCHANGED <<sessVars, readerVars, wire, histVars, sideVars>>

\* connect, the part both paths share: the shell is started, the session is set
\* non-blocking, the id is generated, is_connected starts true and the reader
\* thread is spawned.  how is the path; auth says whether the target host has
\* accepted a login.
SpawnSession(t, i, how, auth) ==
    /\ Start(t, "connect", i)
    /\ CountedWithReader(t)
    /\ Goto(t, "conn_insert")
    /\ issued' = issued \cup {i}
    /\ alive' = [alive EXCEPT ![i] = TRUE]
    /\ blocking' = [blocking EXCEPT ![i] = FALSE]
    /\ rpc' = [rpc EXCEPT ![i] = "check"]
    /\ via' = [via EXCEPT ![i] = how]
    /\ targetAuth' = [targetAuth EXCEPT ![i] = auth]
    /\ UNCHANGED <<channels, regLock, sessLock, chanLock, readBuf, readLog,
                   events, wire, ret, known, disconnected, ioFailed, pureVars>>

\* connect, direct path: create_session(host, ..) returned Ok, so userauth_password
\* succeeded and session.authenticated() was true on the target's session.
ConnectSpawn(t) ==
    \E i \in UuidNewV4 : SpawnSession(t, i, "direct", TRUE)

\* connect, jump path: create_session(jhost, ..) authenticated the session with the
\* jump host; the login on the target is typed into the jump host's shell (the ssh
\* command line, then the password) and its outcome is never read back.
ConnectJump(t) ==
    \E i \in UuidNewV4 : \E accepted \in BOOLEAN : SpawnSession(t, i, "jump", accepted)

\* connect: self.channels.lock().unwrap().insert(channel_id, ssh_channel); Ok(channel_id)
\* (ConnectInsertSetsFlag: is_connected is stored again at the insert)
ConnectInsertSetsFlag(t) ==
    /\ Ready
    /\ pc[t] = "conn_insert"
    /\ MutexFree(regLock)
    /\ channels' = channels \cup {cid[t]}
    /\ known' = known \cup {cid[t]}
    /\ alive' = [alive EXCEPT ![cid[t]] = TRUE]
    /\ Return(t, "Ok")
    /\ UNCHANGED <<regLock, blocking, sessLock, chanLock, readerVars, wire,
                   callerLocals, issued, disconnected, ioFailed, sideVars>>
ConnectInsert(t) ==
    /\ Ready
    /\ pc[t] = "conn_insert"
    /\ MutexFree(regLock)
    /\ channels' = channels \cup {cid[t]}
    /\ known' = known \cup {cid[t]}
    /\ Return(t, "Ok")
    /\ UNCHANGED <<regLock, alive, blocking, sessLock, chanLock, readerVars, wire,
                   callerLocals, issued, disconnected, ioFailed, sideVars>>

connect(t) == ConnectFail(t) \/ ConnectSpawn(t) \/ ConnectInsert(t)

\* ------------------------------------------------------------ reader thread

\* loop head: if !*connected_clone.lock().unwrap() { break; }
ReaderCheck(i) ==
    /\ Ready
    /\ rpc[i] = "check"
    /\ rpc' = [rpc EXCEPT ![i] = IF alive[i] THEN "read" ELSE "done_flag"]
    /\ UNCHANGED <<sessVars, readBuf, readLog, events, wire, callerVars, histVars, sideVars>>

\* channel_clone.lock().unwrap(); locked.channel.read(&mut buf), returning Ok(n), n > 0
ReaderReadData(i) ==
    /\ Ready
    /\ rpc[i] = "read"
    /\ MutexFree(chanLock[i])
    /\ ReadsDone < MaxReads
    /\ LET c == RemoteChunk(Len(readLog[i]) + 1) IN
        /\ readBuf' = [readBuf EXCEPT ![i] = c]
        /\ readLog' = [readLog EXCEPT ![i] = Append(@, c)]
    /\ rpc' = [rpc EXCEPT ![i] = "output"]
    /\ UNCHANGED <<sessVars, events, wire, callerVars, histVars, sideVars>>

\* read returns Ok(0)
ReaderReadZero(i) ==
    /\ Ready
    /\ rpc[i] = "read"
    /\ MutexFree(chanLock[i])
    /\ rpc' = [rpc EXCEPT ![i] = "zero"]
    /\ UNCHANGED <<sessVars, readBuf, readLog, events, wire, callerVars, histVars, sideVars>>

\* read returns WouldBlock (a non-blocking session with no data; sleep 10 ms) or
\* Interrupted (no sleep): back to the loop head with nothing changed.
ReaderReadRetry(i) ==
    /\ Ready
    /\ rpc[i] = "read"
    /\ MutexFree(chanLock[i])
    /\ rpc' = [rpc EXCEPT ![i] = "check"]
    /\ UNCHANGED <<sessVars, readBuf, readLog, events, wire, callerVars, histVars, sideVars>>

\* read returns any other error
ReaderReadError(i) ==
    /\ Ready
    /\ rpc[i] = "read"
    /\ MutexFree(chanLock[i])
    /\ rpc' = [rpc EXCEPT ![i] = "err_mark"]
    /\ UNCHANGED <<sessVars, readBuf, readLog, events, wire, callerVars, histVars, sideVars>>

\* The session is in blocking mode and the remote has nothing to deliver: read
\* does not return, and the reader thread waits in it with the channel guard.
ReaderReadBlocks(i) ==
    /\ Ready
    /\ rpc[i] = "read"
    /\ MutexFree(chanLock[i])
    /\ blocking[i]
    /\ chanLock' = [chanLock EXCEPT ![i] = ReaderThread]
    /\ rpc' = [rpc EXCEPT ![i] = "blocked"]
    /\ UNCHANGED <<channels, regLock, alive, blocking, sessLock, readBuf, readLog,
                   events, wire, callerVars, histVars, sideVars>>

\* The remote delivers data to a read that waits: it returns Ok(n), n > 0.
RemoteWakesData(i) ==
    /\ Ready
    /\ rpc[i] = "blocked"
    /\ ReadsDone < MaxReads
    /\ LET c == RemoteChunk(Len(readLog[i]) + 1) IN
        /\ readBuf' = [readBuf EXCEPT ![i] = c]
        /\ readLog' = [readLog EXCEPT ![i] = Append(@, c)]
    /\ chanLock' = [chanLock EXCEPT ![i] = None]
    /\ rpc' = [rpc EXCEPT ![i] = "output"]
    /\ UNCHANGED <<channels, regLock, alive, blocking, sessLock, events, wire,
                   callerVars, histVars, sideVars>>

\* The remote closes or the transport fails under a read that waits: it returns
\* Ok(0) or an error.
RemoteWakesEnd(i) ==
    /\ Ready
    /\ rpc[i] = "blocked"
    /\ chanLock' = [chanLock EXCEPT ![i] = None]
    /\ \E p \in {"zero", "err_mark"} : rpc' = [rpc EXCEPT ![i] = p]
    /\ UNCHANGED <<channels, regLock, alive, blocking, sessLock, readBuf, readLog,
                   events, wire, callerVars, histVars, sideVars>>

\* Ok(0): channel_clone.lock().unwrap(); locked.channel.eof(); not at EOF sleeps 10 ms
ReaderEofCheck(i) ==
    /\ Ready
    /\ rpc[i] = "zero"
    /\ MutexFree(chanLock[i])
    /\ \E is_eof \in BOOLEAN :
        rpc' = [rpc EXCEPT ![i] = IF is_eof THEN "eof_mark" ELSE "check"]
    /\ UNCHANGED <<sessVars, readBuf, readLog, events, wire, callerVars, histVars, sideVars>>

\* *connected_clone.lock().unwrap() = false  (EOF branch and error branch)
\* (ReaderMarkClosedKeepsFlag: the branch forgets the flag)
ReaderMarkClosedKeepsFlag(i) ==
    /\ rpc[i] \in {"eof_mark", "err_mark"}
    /\ rpc' = [rpc EXCEPT ![i] = IF rpc[i] = "eof_mark" THEN "eof_emit" ELSE "err_emit"]
    /\ UNCHANGED <<sessVars, readBuf, readLog, events, wire, callerVars, histVars, sideVars>>
ReaderMarkClosed(i) ==
    /\ rpc[i] \in {"eof_mark", "err_mark"}
    /\ alive' = [alive EXCEPT ![i] = FALSE]
    /\ rpc' = [rpc EXCEPT ![i] = IF rpc[i] = "eof_mark" THEN "eof_emit" ELSE "err_emit"]
    /\ UNCHANGED <<channels, regLock, blocking, sessLock, chanLock, readBuf, readLog,
                   events, wire, callerVars, histVars, sideVars>>

\* app_handle_clone.emit("pty_closed", &channel_id_clone); break
\* (ReaderEmitClosedNoBreak: the loop goes on reading after the event)
ReaderEmitClosedNoBreak(i) ==
    /\ rpc[i] \in {"eof_emit", "err_emit"}
    /\ events' = [events EXCEPT ![i] = Append(@, PtyClosed)]
    /\ rpc' = [rpc EXCEPT ![i] = "read"]
    /\ UNCHANGED <<sessVars, readBuf, readLog, wire, callerVars, histVars, sideVars>>
ReaderEmitClosed(i) ==
    /\ rpc[i] \in {"eof_emit", "err_emit"}
    /\ events' = [events EXCEPT ![i] = Append(@, PtyClosed)]
    /\ rpc' = [rpc EXCEPT ![i] = IF rpc[i] = "eof_emit" THEN "done_eof" ELSE "done_err"]
    /\ UNCHANGED <<sessVars, readBuf, readLog, wire, callerVars, histVars, sideVars>>

\* Ok(n): emit("pty_output", {channelId, data: from_utf8_lossy(&buf[0..n])})
ReaderOutputReordered(i) ==
    /\ rpc[i] = "output"
    /\ events' = [events EXCEPT ![i] = <<PtyOutput(Utf8Lossy(readBuf[i]))>> \o @]
    /\ readBuf' = [readBuf EXCEPT ![i] = <<>>]
    /\ rpc' = [rpc EXCEPT ![i] = "check"]
    /\ UNCHANGED <<sessVars, readLog, wire, callerVars, histVars, sideVars>>
ReaderOutput(i) ==
    /\ rpc[i] = "output"
    /\ events' = [events EXCEPT ![i] = Append(@, PtyOutput(Utf8Lossy(readBuf[i])))]
    /\ readBuf' = [readBuf EXCEPT ![i] = <<>>]
    /\ rpc' = [rpc EXCEPT ![i] = "check"]
    /\ UNCHANGED <<sessVars, readLog, wire, callerVars, histVars, sideVars>>

\* The reader thread's steps that read or take something shared ...
Reader(i) ==
    \/ ReaderCheck(i)
    \/ ReaderReadData(i)
    \/ ReaderReadZero(i)
    \/ ReaderReadRetry(i)
    \/ ReaderReadError(i)
    \/ ReaderReadBlocks(i)
    \/ ReaderEofCheck(i)

\* What the remote end does to a read that waits; nothing obliges it to.
Remote(i) ==
    \/ RemoteWakesData(i)
    \/ RemoteWakesEnd(i)

\* ... and the ones that follow from what it has read.
ReaderLocal(i) ==
    \/ ReaderOutput(i)
    \/ ReaderMarkClosed(i)
    \/ ReaderEmitClosed(i)

\* ------------------------------------------------------------- send_command

\* The i-th byte of the payload of call n (payloads of different calls differ).
PayloadByte(n, i) == [call |-> n, i |-> i]

\* channels = self.channels.lock().unwrap(); channels.get(channel_id).ok_or(SessionNotFound)?
\* The guard `channels` lives until send_command returns.
SendLookup(t) ==
    \E i \in CallerIds :
        /\ Start(t, "send", i)
        /\ MutexFree(regLock)
        /\ IF i \in channels
           THEN /\ regLock' = t
                /\ Counted(t)
                /\ Goto(t, "send_block")
                /\ UNCHANGED ret
           ELSE /\ NotCounted
                /\ Return(t, "SessionNotFound")
                /\ UNCHANGED regLock
        /\ UNCHANGED <<channels, alive, blocking, sessLock, chanLock, readerVars,
                       wire, histVars, sideVars>>

\* { let session = ssh.session.lock().unwrap(); session.set_blocking(true); }
\* (SendSetBlockingKeepsGuard: the session guard outlives its block)
SendSetBlockingKeepsGuard(t) ==
    /\ Ready
    /\ pc[t] = "send_block"
    /\ MutexFree(sessLock[cid[t]])
    /\ blocking' = [blocking EXCEPT ![cid[t]] = TRUE]
    /\ sessLock' = [sessLock EXCEPT ![cid[t]] = t]
    /\ Goto(t, "send_lock")
    /\ UNCHANGED <<channels, regLock, alive, chanLock, readerVars, wire,
                   callerLocals, ret, histVars, sideVars>>
SendSetBlocking(t) ==
    /\ Ready
    /\ pc[t] = "send_block"
    /\ MutexFree(sessLock[cid[t]])
    /\ blocking' = [blocking EXCEPT ![cid[t]] = TRUE]
    /\ Goto(t, "send_lock")
    /\ UNCHANGED <<channels, regLock, alive, sessLock, chanLock, readerVars, wire,
                   callerLocals, ret, histVars, sideVars>>

\* let mut channel = ssh.channel.lock().unwrap();  held until send_command returns
\* (SendLockChannelNoWait: the write goes ahead whoever holds the channel)
SendLockChannelNoWait(t) ==
    /\ Ready
    /\ pc[t] = "send_lock"
    /\ chanLock' = [chanLock EXCEPT ![cid[t]] = t]
    /\ Goto(t, "send_write")
    /\ UNCHANGED <<channels, regLock, alive, blocking, sessLock, readerVars, wire,
                   callerLocals, ret, histVars, sideVars>>
SendLockChannel(t) ==
    /\ Ready
    /\ pc[t] = "send_lock"
    /\ MutexFree(chanLock[cid[t]])
    /\ chanLock' = [chanLock EXCEPT ![cid[t]] = t]
    /\ Goto(t, "send_write")
    /\ UNCHANGED <<channels, regLock, alive, blocking, sessLock, readerVars, wire,
                   callerLocals, ret, histVars, sideVars>>

\* channel.channel.write_all(data.as_bytes()): the next byte goes on the wire
SendWriteByte(t) ==
    /\ Ready
    /\ pc[t] = "send_write"
    /\ written[t] < PayloadLen
    /\ wire' = [wire EXCEPT ![cid[t]] = Append(@, PayloadByte(callNo[t], written[t] + 1))]
    /\ written' = [written EXCEPT ![t] = @ + 1]
    /\ UNCHANGED <<sessVars, readerVars, pc, op, cid, ret, result, callNo, ops, histVars, sideVars>>

\* write_all(..)? or flush()? fails: the error is returned, the guards are dropped,
\* and the set_blocking(false) further down is not reached.
SendWriteFail(t) ==
    /\ Ready
    /\ pc[t] = "send_write"
    /\ Return(t, "IoError")
    /\ ioFailed' = ioFailed \cup {callNo[t]}
    /\ chanLock' = [chanLock EXCEPT ![cid[t]] = None]
    /\ regLock' = None
    /\ UNCHANGED <<channels, alive, blocking, sessLock, readerVars, wire,
                   callerLocals, issued, known, disconnected, sideVars>>

\* write_all and flush returned Ok
SendFlushed(t) ==
    /\ Ready
    /\ pc[t] = "send_write"
    /\ written[t] = PayloadLen
    /\ Goto(t, "send_restore")
    /\ UNCHANGED <<sessVars, readerVars, wire, callerLocals, ret, histVars, sideVars>>

\* let session = ssh.session.lock().unwrap();  the guard `channel` is still alive
SendLockSession(t) ==
    /\ Ready
    /\ pc[t] = "send_restore"
    /\ MutexFree(sessLock[cid[t]])
    /\ sessLock' = [sessLock EXCEPT ![cid[t]] = t]
    /\ Goto(t, "send_unblock")
    /\ UNCHANGED <<channels, regLock, alive, blocking, chanLock, readerVars, wire,
                   callerLocals, ret, histVars, sideVars>>

\* session.set_blocking(false); the session guard drops; Ok(()) drops the others
SendRestore(t) ==
    /\ Ready
    /\ pc[t] = "send_unblock"
    /\ blocking' = [blocking EXCEPT ![cid[t]] = FALSE]
    /\ sessLock' = [sessLock EXCEPT ![cid[t]] = None]
    /\ chanLock' = [chanLock EXCEPT ![cid[t]] = None]
    /\ regLock' = None
    /\ Return(t, "Ok")
    /\ UNCHANGED <<channels, alive, readerVars, wire, callerLocals, histVars, sideVars>>

send_command(t) ==
    \/ SendLookup(t)
    \/ SendSetBlocking(t)
    \/ SendLockChannel(t)
    \/ SendWriteByte(t)
    \/ SendWriteFail(t)
    \/ SendFlushed(t)
    \/ SendLockSession(t)
    \/ SendRestore(t)

\* ------------------------------------------------------------------- resize

\* channels = self.channels.lock().unwrap(); channels.get(channel_id).ok_or(SessionNotFound)?
ResizeLookup(t) ==
    \E i \in CallerIds :
        /\ Start(t, "resize", i)
        /\ MutexFree(regLock)
        /\ IF i \in channels
           THEN /\ regLock' = t
                /\ Counted(t)
                /\ Goto(t, "resize_block")
                /\ UNCHANGED ret
           ELSE /\ NotCounted
                /\ Return(t, "SessionNotFound")
                /\ UNCHANGED regLock
        /\ UNCHANGED <<channels, alive, blocking, sessLock, chanLock, readerVars,
                       wire, histVars, sideVars>>

\* { let session = ssh.session.lock().unwrap(); session.set_blocking(true); }
ResizeSetBlocking(t) ==
    /\ Ready
    /\ pc[t] = "resize_block"
    /\ MutexFree(sessLock[cid[t]])
    /\ blocking' = [blocking EXCEPT ![cid[t]] = TRUE]
    /\ Goto(t, "resize_request")
    /\ UNCHANGED <<channels, regLock, alive, sessLock, chanLock, readerVars, wire,
                   callerLocals, ret, histVars, sideVars>>

\* result = { channel = ssh.channel.lock().unwrap(); channel.channel.request_pty_size(..) }
ResizeRequest(t) ==
    /\ Ready
    /\ pc[t] = "resize_request"
    /\ MutexFree(chanLock[cid[t]])
    /\ \E r \in {"ok", "err"} : result' = [result EXCEPT ![t] = r]
    /\ Goto(t, "resize_restore")
    /\ UNCHANGED <<sessVars, readerVars, wire, op, cid, ret, written, callNo, ops,
                   histVars, sideVars>>

\* { session.set_blocking(false); }  result.map_err(PtyError)?;  Ok(())
\* (ResizeRestoreAfterError: `?` applied to the request itself, before the switch back)
ResizeRestoreAfterError(t) ==
    /\ Ready
    /\ pc[t] = "resize_restore"
    /\ MutexFree(sessLock[cid[t]])
    /\ blocking' = [blocking EXCEPT ![cid[t]] = IF result[t] = "ok" THEN FALSE ELSE @]
    /\ regLock' = None
    /\ Return(t, IF result[t] = "ok" THEN "Ok" ELSE "PtyError")
    /\ UNCHANGED <<channels, alive, sessLock, chanLock, readerVars, wire,
                   callerLocals, histVars, sideVars>>
ResizeRestore(t) ==
    /\ Ready
    /\ pc[t] = "resize_restore"
    /\ MutexFree(sessLock[cid[t]])
    /\ blocking' = [blocking EXCEPT ![cid[t]] = FALSE]
    /\ regLock' = None
    /\ Return(t, IF result[t] = "ok" THEN "Ok" ELSE "PtyError")
    /\ UNCHANGED <<channels, alive, sessLock, chanLock, readerVars, wire,
                   callerLocals, histVars, sideVars>>

resize(t) ==
    \/ ResizeLookup(t)
    \/ ResizeSetBlocking(t)
    \/ ResizeRequest(t)
    \/ ResizeRestore(t)

\* --------------------------------------------------------------- disconnect

\* channels = self.channels.lock().unwrap(); if let Some(ssh) = channels.remove(channel_id)
\* A miss falls through to Ok(()).
DisconnectKeepsEntry(t) ==
    \E i \in CallerIds :
        /\ Start(t, "disconnect", i)
        /\ MutexFree(regLock)
        /\ IF i \in channels
           THEN /\ regLock' = t
                /\ Counted(t)
                /\ Goto(t, "disc_mark")
                /\ UNCHANGED ret
           ELSE /\ NotCounted
                /\ Return(t, "Ok")
                /\ UNCHANGED regLock
        /\ UNCHANGED <<channels, alive, blocking, sessLock, chanLock, readerVars,
                       wire, histVars, sideVars>>
DisconnectRemove(t) ==
    \E i \in CallerIds :
        /\ Start(t, "disconnect", i)
        /\ MutexFree(regLock)
        /\ IF i \in channels
           THEN /\ channels' = channels \ {i}
                /\ regLock' = t
                /\ Counted(t)
                /\ Goto(t, "disc_mark")
                /\ UNCHANGED ret
           ELSE /\ NotCounted
                /\ Return(t, "Ok")
                /\ UNCHANGED <<channels, regLock>>
        /\ UNCHANGED <<alive, blocking, sessLock, chanLock, readerVars, wire, histVars, sideVars>>

\* *ssh.is_connected.lock().unwrap() = false
DisconnectMark(t) ==
    /\ Ready
    /\ pc[t] = "disc_mark"
    /\ alive' = [alive EXCEPT ![cid[t]] = FALSE]
    /\ Goto(t, "disc_block")
    /\ UNCHANGED <<channels, regLock, blocking, sessLock, chanLock, readerVars, wire,
                   callerLocals, ret, histVars, sideVars>>

\* { let session = ssh.session.lock().unwrap(); session.set_blocking(true); }
DisconnectSetBlocking(t) ==
    /\ Ready
    /\ pc[t] = "disc_block"
    /\ MutexFree(sessLock[cid[t]])
    /\ blocking' = [blocking EXCEPT ![cid[t]] = TRUE]
    /\ Goto(t, "disc_lock")
    /\ UNCHANGED <<channels, regLock, alive, sessLock, chanLock, readerVars, wire,
                   callerLocals, ret, histVars, sideVars>>

\* let mut channel = ssh.channel.lock().unwrap();
DisconnectLockChannel(t) ==
    /\ Ready
    /\ pc[t] = "disc_lock"
    /\ MutexFree(chanLock[cid[t]])
    /\ chanLock' = [chanLock EXCEPT ![cid[t]] = t]
    /\ Goto(t, "disc_write")
    /\ UNCHANGED <<channels, regLock, alive, blocking, sessLock, readerVars, wire,
                   callerLocals, ret, histVars, sideVars>>

\* let _ = channel.channel.write_all(b"exit\n"): the next byte goes on the wire
DisconnectWriteByte(t) ==
    /\ Ready
    /\ pc[t] = "disc_write"
    /\ written[t] < PayloadLen
    /\ wire' = [wire EXCEPT ![cid[t]] = Append(@, PayloadByte(callNo[t], written[t] + 1))]
    /\ written' = [written EXCEPT ![t] = @ + 1]
    /\ UNCHANGED <<sessVars, readerVars, pc, op, cid, ret, result, callNo, ops, histVars, sideVars>>

\* write_all fails before the last byte; `let _ =` drops the error
\* (DisconnectWriteFailReturns: the error is passed on with `?`)
DisconnectWriteFailReturns(t) ==
    /\ Ready
    /\ pc[t] = "disc_write"
    /\ written[t] < PayloadLen
    /\ ioFailed' = ioFailed \cup {callNo[t]}
    /\ chanLock' = [chanLock EXCEPT ![cid[t]] = None]
    /\ regLock' = None
    /\ Return(t, "IoError")
    /\ UNCHANGED <<channels, alive, blocking, sessLock, readerVars, wire, callerLocals,
                   issued, known, disconnected, sideVars>>
DisconnectWriteFail(t) ==
    /\ Ready
    /\ pc[t] = "disc_write"
    /\ written[t] < PayloadLen
    /\ ioFailed' = ioFailed \cup {callNo[t]}
    /\ Goto(t, "disc_close")
    /\ UNCHANGED <<sessVars, readerVars, wire, callerLocals, ret, issued, known,
                   disconnected, sideVars>>

\* write_all returned Ok
DisconnectWritten(t) ==
    /\ Ready
    /\ pc[t] = "disc_write"
    /\ written[t] = PayloadLen
    /\ Goto(t, "disc_close")
    /\ UNCHANGED <<sessVars, readerVars, wire, callerLocals, ret, histVars, sideVars>>

\* let _ = flush(); let _ = send_eof(); let _ = wait_close();  the guards drop; Ok(())
DisconnectClose(t) ==
    /\ Ready
    /\ pc[t] = "disc_close"
    /\ chanLock' = [chanLock EXCEPT ![cid[t]] = None]
    /\ regLock' = None
    /\ disconnected' = disconnected \cup {cid[t]}
    /\ Return(t, "Ok")
    /\ UNCHANGED <<channels, alive, blocking, sessLock, readerVars, wire,
                   callerLocals, issued, known, ioFailed, sideVars>>

disconnect(t) ==
    \/ DisconnectRemove(t)
    \/ DisconnectMark(t)
    \/ DisconnectSetBlocking(t)
    \/ DisconnectLockChannel(t)
    \/ DisconnectWriteByte(t)
    \/ DisconnectWriteFail(t)
    \/ DisconnectWritten(t)
    \/ DisconnectClose(t)

\* ---------------------------------------------------------------- SFTP verbs

\* get_sftp: channels = self.channels.lock().unwrap(); channels.get(..).ok_or(SessionNotFound)?
SftpLookup(t) ==
    \E i \in CallerIds :
        /\ Start(t, "sftp", i)
        /\ MutexFree(regLock)
        /\ IF i \in channels
           THEN /\ regLock' = t
                /\ Counted(t)
                /\ Goto(t, "sftp_lock")
                /\ UNCHANGED ret
           ELSE /\ NotCounted
                /\ Return(t, "SessionNotFound")
                /\ UNCHANGED regLock
        /\ UNCHANGED <<channels, alive, blocking, sessLock, chanLock, readerVars,
                       wire, histVars, sideVars>>

\* get_sftp: let inner = ssh_channel.inner.lock().unwrap();  the mutex around the session
SftpLockInner(t) ==
    /\ Ready
    /\ pc[t] = "sftp_lock"
    /\ MutexFree(sessLock[cid[t]])
    /\ sessLock' = [sessLock EXCEPT ![cid[t]] = t]
    /\ Goto(t, "sftp_init")
    /\ UNCHANGED <<channels, regLock, alive, blocking, chanLock, readerVars, wire,
                   callerLocals, ret, histVars, sideVars>>

\* get_sftp: inner.session.sftp().map_err(ChannelError); both guards drop on return
SftpInitTearsDown(t) ==
    /\ Ready
    /\ pc[t] = "sftp_init"
    /\ sessLock' = [sessLock EXCEPT ![cid[t]] = None]
    /\ regLock' = None
    /\ \/ Goto(t, "sftp_verb") /\ UNCHANGED <<ret, channels, alive>>
       \/ /\ Return(t, "ChannelError")
          /\ channels' = channels \ {cid[t]}
          /\ alive' = [alive EXCEPT ![cid[t]] = FALSE]
    /\ UNCHANGED <<blocking, chanLock, readerVars, wire, callerLocals, histVars, sideVars>>
SftpInit(t) ==
    /\ Ready
    /\ pc[t] = "sftp_init"
    /\ sessLock' = [sessLock EXCEPT ![cid[t]] = None]
    /\ regLock' = None
    /\ \/ Goto(t, "sftp_verb") /\ UNCHANGED ret
       \/ Return(t, "ChannelError")
    /\ UNCHANGED <<channels, alive, blocking, chanLock, readerVars, wire,
                   callerLocals, histVars, sideVars>>

\* the verb's own SFTP requests, on the Sftp handle, with no guard held
SftpVerb(t) ==
    /\ Ready
    /\ pc[t] = "sftp_verb"
    /\ \E r \in {"Ok", "ChannelError", "IoError"} : Return(t, r)
    /\ UNCHANGED <<sessVars, readerVars, wire, callerLocals, histVars, sideVars>>

sftp(t) ==
    \/ SftpLookup(t)
    \/ SftpLockInner(t)
    \/ SftpInit(t)
    \/ SftpVerb(t)

\* ------------------------------------------------- sftp_download, sftp_upload
\* One transfer at a time, after get_sftp returned the Sftp handle: download copies
\* the remote file "src" to the local file "file", upload copies "file" to "dst".

\* what a transfer leaves alone: the sessions, the listing and the path
xferFrame == <<sessVars, readerVars, wire, callerVars, histVars, connVars, pathVars, listVars, permVars>>

XferGoto(p) == xfer' = [xfer EXCEPT !.pc = p]
XferReturn(r, c) == xfer' = [xfer EXCEPT !.pc = "returned", !.ret = r, !.cause = c]

\* sftp.open(remote_path).map_err(ChannelError)?
DownloadOpen ==
    /\ xfer.pc = "idle"
    /\ \/ /\ remoteFs["src"].exists
          /\ xfer' = [xfer EXCEPT !.pc = "dl_create", !.op = "download"]
       \/ xfer' = [xfer EXCEPT !.pc = "returned", !.op = "download",
                               !.ret = "ChannelError", !.cause = "remote_open"]
    /\ UNCHANGED <<remoteFs, localFs>>
    /\ UNCHANGED xferFrame

\* File::create(local_path).map_err(IoError)?: the local file exists and is empty
DownloadCreate ==
    /\ xfer.pc = "dl_create"
    /\ \/ /\ localFs' = [localFs EXCEPT !["file"] = FileOf(<<>>)]
          /\ XferGoto("dl_read")
       \/ /\ XferReturn("IoError", "local_create")
          /\ UNCHANGED localFs
    /\ UNCHANGED remoteFs
    /\ UNCHANGED xferFrame

\* remote_file.read(&mut buffer).map_err(IoError)?: 0 at the end of the file,
\* otherwise between 1 and buffer.len() of the bytes that are left
DownloadRead ==
    /\ xfer.pc = "dl_read"
    /\ LET left == Len(remoteFs["src"].data) - xfer.pos IN
        \/ /\ left = 0
           /\ XferReturn("Ok", "none")
        \/ \E k \in 1..BufSize :
              /\ k <= left
              /\ xfer' = [xfer EXCEPT !.pc = "dl_write", !.n = k]
        \/ XferReturn("IoError", "remote_read")
    /\ UNCHANGED <<remoteFs, localFs>>
    /\ UNCHANGED xferFrame

\* local_file.write_all(&buffer[..bytes_read]).map_err(IoError)?; total_bytes += bytes_read
\* A write_all that fails may have written a part of the bytes.
\* (DownloadWriteStopsShort: a loop that takes a read shorter than the buffer for the last one)
DownloadWriteStopsShort ==
    /\ xfer.pc = "dl_write"
    /\ LET chunk == SubSeq(remoteFs["src"].data, xfer.pos + 1, xfer.pos + xfer.n) IN
        \/ /\ localFs' = [localFs EXCEPT !["file"].data = @ \o chunk]
           /\ xfer' = [xfer EXCEPT !.pc = IF xfer.n < BufSize THEN "returned" ELSE "dl_read",
                                   !.ret = IF xfer.n < BufSize THEN "Ok" ELSE "none",
                                   !.pos = @ + xfer.n, !.total = @ + xfer.n, !.n = 0]
        \/ \E k \in 0..(xfer.n - 1) :
              /\ localFs' = [localFs EXCEPT !["file"].data = @ \o SubSeq(chunk, 1, k)]
              /\ XferReturn("IoError", "local_write")
    /\ UNCHANGED remoteFs
    /\ UNCHANGED xferFrame
DownloadWrite ==
    /\ xfer.pc = "dl_write"
    /\ LET chunk == SubSeq(remoteFs["src"].data, xfer.pos + 1, xfer.pos + xfer.n) IN
        \/ /\ localFs' = [localFs EXCEPT !["file"].data = @ \o chunk]
           /\ xfer' = [xfer EXCEPT !.pc = "dl_read", !.pos = @ + xfer.n,
                                   !.total = @ + xfer.n, !.n = 0]
        \/ \E k \in 0..(xfer.n - 1) :
              /\ localFs' = [localFs EXCEPT !["file"].data = @ \o SubSeq(chunk, 1, k)]
              /\ XferReturn("IoError", "local_write")
    /\ UNCHANGED remoteFs
    /\ UNCHANGED xferFrame

sftp_download == DownloadOpen \/ DownloadCreate \/ DownloadRead \/ DownloadWrite

\* File::open(local_path).map_err(IoError)?
UploadOpen ==
    /\ xfer.pc = "idle"
    /\ \/ /\ localFs["file"].exists
          /\ xfer' = [xfer EXCEPT !.pc = "ul_create", !.op = "upload"]
       \/ xfer' = [xfer EXCEPT !.pc = "returned", !.op = "upload",
                               !.ret = "IoError", !.cause = "local_open"]
    /\ UNCHANGED <<remoteFs, localFs>>
    /\ UNCHANGED xferFrame

\* sftp.create(remote_path).map_err(ChannelError)?: the remote file exists and is empty
UploadCreate ==
    /\ xfer.pc = "ul_create"
    /\ \/ /\ remoteFs' = [remoteFs EXCEPT !["dst"] = FileOf(<<>>)]
          /\ XferGoto("ul_read")
       \/ /\ XferReturn("ChannelError", "remote_create")
          /\ UNCHANGED remoteFs
    /\ UNCHANGED localFs
    /\ UNCHANGED xferFrame

\* local_file.read(&mut buffer).map_err(IoError)?
UploadRead ==
    /\ xfer.pc = "ul_read"
    /\ LET left == Len(localFs["file"].data) - xfer.pos IN
        \/ /\ left = 0
           /\ XferReturn("Ok", "none")
        \/ \E k \in 1..BufSize :
              /\ k <= left
              /\ xfer' = [xfer EXCEPT !.pc = "ul_write", !.n = k]
        \/ XferReturn("IoError", "local_read")
    /\ UNCHANGED <<remoteFs, localFs>>
    /\ UNCHANGED xferFrame

\* remote_file.write_all(&buffer[..bytes_read]).map_err(IoError)?; total_bytes += bytes_read
UploadWrite ==
    /\ xfer.pc = "ul_write"
    /\ LET chunk == SubSeq(localFs["file"].data, xfer.pos + 1, xfer.pos + xfer.n) IN
        \/ /\ remoteFs' = [remoteFs EXCEPT !["dst"].data = @ \o chunk]
           /\ xfer' = [xfer EXCEPT !.pc = "ul_read", !.pos = @ + xfer.n,
                                   !.total = @ + xfer.n, !.n = 0]
        \/ \E k \in 0..(xfer.n - 1) :
              /\ remoteFs' = [remoteFs EXCEPT !["dst"].data = @ \o SubSeq(chunk, 1, k)]
              /\ XferReturn("IoError", "remote_write")
    /\ UNCHANGED localFs
    /\ UNCHANGED xferFrame

sftp_upload == UploadOpen \/ UploadCreate \/ UploadRead \/ UploadWrite

\* The call has returned Ok(total_bytes) or the error; the next one can start.
XferFinish ==
    /\ xfer.pc = "returned"
    /\ xfer' = [XferIdleRec EXCEPT
                  !.prev = [op |-> xfer.op, ret |-> xfer.ret, total |-> xfer.total]]
    /\ UNCHANGED <<remoteFs, localFs>>
    /\ UNCHANGED xferFrame

RECURSIVE SeqsUpTo(_, _)
SeqsUpTo(S, n) ==
    IF n = 0 THEN {<<>>}
    ELSE LET shorter == SeqsUpTo(S, n - 1)
         IN  shorter \cup {Append(q, x) : q \in shorter, x \in S}

\* A server with some file at "src", and a local disk with or without a "file".
XferInit ==
    /\ CoreInit /\ ConnInit /\ PathIdle /\ ListIdle /\ PermIdle
    /\ \E d \in SeqsUpTo(FileBytes, MaxFileLen) :
          remoteFs = [p \in RemotePaths |-> IF p = "src" THEN FileOf(d) ELSE NoFile]
    /\ localFs \in [LocalPaths -> {NoFile, FileOf(<<2, 1>>)}]
    /\ xfer = XferIdleRec

XferNext == sftp_download \/ sftp_upload \/ XferFinish

XferSpec == XferInit /\ [][XferNext]_vars

\* ---------------------------------------------------------- get_parent_path
OptNone == [some |-> FALSE, val |-> <<>>]
OptSome(x) == [some |-> TRUE, val |-> x]

\* path.trim_end_matches('/'): every trailing '/' is removed
TrimOneSlash(p) ==
    IF p # <<>> /\ p[Len(p)] = "/" THEN SubSeq(p, 1, Len(p) - 1) ELSE p
RECURSIVE TrimEndMatches(_)
TrimEndMatches(p) ==
    IF p # <<>> /\ p[Len(p)] = "/" THEN TrimEndMatches(SubSeq(p, 1, Len(p) - 1)) ELSE p

\* path.rfind('/'): the byte index (from 0) of the last '/', if there is one
RFind(p) ==
    LET at == {i \in 1..Len(p) : p[i] = "/"}
    IN  IF at = {} THEN OptNone
        ELSE OptSome((CHOOSE i \in at : \A j \in at : j <= i) - 1)

GetParentPath(p0) ==
    LET p == TrimEndMatches(p0)
        idx == RFind(p)
    IN  IF p = <<>> \/ p = <<"/">> THEN OptNone
        ELSE IF ~idx.some THEN OptSome(<<"/">>)
        ELSE IF idx.val = 0 THEN OptSome(<<"/">>)
        ELSE OptSome(SubSeq(p, 1, idx.val))

get_parent_path ==
    /\ parent = Unset
    /\ parent' = GetParentPath(path)
    /\ UNCHANGED path
    /\ UNCHANGED <<sessVars, readerVars, wire, callerVars, histVars, connVars, xferVars, listVars, permVars>>

PathInit ==
    /\ CoreInit /\ ConnInit /\ XferIdle /\ ListIdle /\ PermIdle
    /\ path \in SeqsUpTo(PathChars, MaxPathLen)
    /\ parent = Unset

PathNext == get_parent_path

PathSpec == PathInit /\ [][PathNext]_vars

\* ------------------------------------------------------------ sftp_list_dir
\* str::to_lowercase on ASCII names
ToLowercase(name) ==
    [i \in DOMAIN name |-> IF name[i] \in 65..90 THEN name[i] + 32 ELSE name[i]]

\* Ord for String: byte by byte, a proper prefix is less
RECURSIVE StrCmp(_, _)
StrCmp(u, v) ==
    IF u = <<>> /\ v = <<>> THEN "Equal"
    ELSE IF u = <<>> THEN "Less"
    ELSE IF v = <<>> THEN "Greater"
    ELSE IF Head(u) < Head(v) THEN "Less"
    ELSE IF Head(u) > Head(v) THEN "Greater"
    ELSE StrCmp(Tail(u), Tail(v))

\* the closure given to entries.sort_by
SortByCmpCaseSensitive(a, b) ==
    IF a.is_dir /\ ~b.is_dir THEN "Less"
    ELSE IF ~a.is_dir /\ b.is_dir THEN "Greater"
    ELSE StrCmp(a.name, b.name)
SortByCmp(a, b) ==
    IF a.is_dir /\ ~b.is_dir THEN "Less"
    ELSE IF ~a.is_dir /\ b.is_dir THEN "Greater"
    ELSE StrCmp(ToLowercase(a.name), ToLowercase(b.name))

\* slice::sort_by is a stable sort: x goes behind every element that is not greater
InsertSorted(sorted, x) ==
    LET notGreater == {i \in 1..Len(sorted) : SortByCmp(sorted[i], x) # "Greater"}
        at == IF notGreater = {} THEN 0
              ELSE CHOOSE i \in notGreater : \A j \in notGreater : j <= i
    IN  SubSeq(sorted, 1, at) \o <<x>> \o SubSeq(sorted, at + 1, Len(sorted))

RECURSIVE SortBy(_)
SortBy(list) ==
    IF list = <<>> THEN <<>>
    ELSE InsertSorted(SortBy(SubSeq(list, 1, Len(list) - 1)), list[Len(list)])

\* filter_map over the readdir result: one FileEntry per (path, stat)
FileEntryOf(d) == [name |-> d.name, is_dir |-> d.is_dir]

\* str::starts_with
StartsWith(p, pre) == Len(p) >= Len(pre) /\ SubSeq(p, 1, Len(pre)) = pre

\* The server's canonical form of an absolute path: single slashes, none at the end
\* except for the root.
RECURSIVE Squeeze(_)
Squeeze(p) ==
    IF Len(p) < 2 THEN p
    ELSE IF p[1] = "/" /\ p[2] = "/" THEN Squeeze(Tail(p))
    ELSE <<p[1]>> \o Squeeze(Tail(p))
Canonical(p) ==
    LET q == TrimEndMatches(Squeeze(p)) IN IF q = <<>> THEN <<"/">> ELSE q

\* sftp.realpath(Path::new(".")): Ok(home) or Err
RealPathDot == IF sftp_server.dotFails THEN OptNone ELSE OptSome(sftp_server.home)

\* sftp.realpath(Path::new(&resolved_path)): a relative path is taken from the home
RealPath(p) ==
    IF sftp_server.canonFails THEN OptNone
    ELSE IF StartsWith(p, <<"/">>) THEN OptSome(Canonical(p))
    ELSE OptSome(Canonical(sftp_server.home \o <<"/">> \o p))

\* "Resolve ~ to home directory"
ResolvedPath(p) ==
    IF p = <<"~">> \/ p = <<>>
    THEN IF RealPathDot.some THEN RealPathDot.val ELSE <<"/">>
    ELSE IF StartsWith(p, <<"~", "/">>)
    THEN IF RealPathDot.some
         THEN TrimEndMatches(RealPathDot.val) \o <<"/">> \o SubSeq(p, 3, Len(p))
         ELSE p
    ELSE p

\* "Get canonical path": realpath, or the resolved path when realpath fails
CanonicalPath(p) ==
    LET resolved == ResolvedPath(p) IN
    IF RealPath(resolved).some THEN RealPath(resolved).val ELSE resolved

sftp_list_dir ==
    /\ ~listing.done /\ ~listing.failed
    /\ IF sftp_server.readdirFails
       THEN listing' = [listing EXCEPT !.failed = TRUE]
       ELSE listing' =
              [done |-> TRUE, failed |-> FALSE,
               current_path |-> CanonicalPath(list_path),
               parent_path |-> GetParentPath(CanonicalPath(list_path)),
               entries |-> SortBy([i \in DOMAIN dir_entries |-> FileEntryOf(dir_entries[i])])]
    /\ UNCHANGED <<dir_entries, list_path, sftp_server>>
    /\ UNCHANGED <<sessVars, readerVars, wire, callerVars, histVars, connVars, pathVars, xferVars, permVars>>

\* readdir returns the entries of a directory, each name once, in any order
DirEntries == [name : FileNames, is_dir : BOOLEAN]
\* the path arguments "~", "", "~/a", "/a/", "/" and the homes "/", "/a", "/a/b"
ListPaths == {<<"~">>, <<>>, <<"~", "/", "a">>, <<"/", "a", "/">>, <<"/">>}
Homes == {<<"/">>, <<"/", "a">>, <<"/", "a", "/", "b">>}
ListInit ==
    /\ CoreInit /\ ConnInit /\ PathIdle /\ XferIdle /\ PermIdle
    /\ dir_entries \in SeqsUpTo(DirEntries, MaxEntries)
    /\ \A i, j \in DOMAIN dir_entries : i # j => dir_entries[i].name # dir_entries[j].name
    /\ listing = NotListed
    /\ list_path \in ListPaths
    /\ sftp_server \in [home : Homes, dotFails : BOOLEAN, canonFails : BOOLEAN,
                         readdirFails : BOOLEAN]

ListNext == sftp_list_dir

ListSpec == ListInit /\ [][ListNext]_vars

\* -------------------------------------------------------- format_permissions
RECURSIVE Pow2(_)
Pow2(n) == IF n = 0 THEN 1 ELSE 2 * Pow2(n - 1)

\* perm & mask != 0, for a mask of one bit
MaskSet(p, mask) == (p \div mask) % 2 = 1

\* owner, group, other: s.push(if perm & 0o400 != 0 { 'r' } else { '-' }) and so on
FormatPermissionsOwnerMask(p) ==
    << IF MaskSet(p, 256) THEN "r" ELSE "-",
       IF MaskSet(p, 64) THEN "w" ELSE "-",
       IF MaskSet(p, 64) THEN "x" ELSE "-",
       IF MaskSet(p, 32) THEN "r" ELSE "-",
       IF MaskSet(p, 16) THEN "w" ELSE "-",
       IF MaskSet(p, 8) THEN "x" ELSE "-",
       IF MaskSet(p, 4) THEN "r" ELSE "-",
       IF MaskSet(p, 2) THEN "w" ELSE "-",
       IF MaskSet(p, 1) THEN "x" ELSE "-" >>
FormatPermissions(p) ==
    << IF MaskSet(p, 256) THEN "r" ELSE "-",
       IF MaskSet(p, 128) THEN "w" ELSE "-",
       IF MaskSet(p, 64) THEN "x" ELSE "-",
       IF MaskSet(p, 32) THEN "r" ELSE "-",
       IF MaskSet(p, 16) THEN "w" ELSE "-",
       IF MaskSet(p, 8) THEN "x" ELSE "-",
       IF MaskSet(p, 4) THEN "r" ELSE "-",
       IF MaskSet(p, 2) THEN "w" ELSE "-",
       IF MaskSet(p, 1) THEN "x" ELSE "-" >>

format_permissions ==
    /\ permissions = <<>>
    /\ permissions' = FormatPermissions(perm)
    /\ UNCHANGED perm
    /\ UNCHANGED <<sessVars, readerVars, wire, callerVars, histVars, connVars, pathVars, xferVars, listVars>>

PermInit ==
    /\ CoreInit /\ ConnInit /\ PathIdle /\ XferIdle /\ ListIdle
    /\ perm \in 0..(Pow2(ModeBits) - 1)
    /\ permissions = <<>>

PermNext == format_permissions

PermSpec == PermInit /\ [][PermNext]_vars

\* The bridge has taken the result; the caller thread is free for the next call.
Finish(t) ==
    /\ pc[t] = "returned"
    /\ pc' = [pc EXCEPT ![t] = "idle"]
    /\ op' = [op EXCEPT ![t] = "none"]
    /\ cid' = [cid EXCEPT ![t] = NoSuchId]
    /\ ret' = [ret EXCEPT ![t] = "none"]
    /\ written' = [written EXCEPT ![t] = 0]
    /\ result' = [result EXCEPT ![t] = "none"]
    /\ callNo' = [callNo EXCEPT ![t] = 0]
    /\ UNCHANGED <<sessVars, readerVars, wire, ops, histVars, sideVars>>

\* ------------------------------------------------------------ specification

\* The steps that are taken as soon as they are enabled (see Ready) ...
LocalStep ==
    \/ \E t \in Callers : Finish(t)
    \/ \E i \in ChannelIds : ReaderLocal(i)

\* ... and the steps that read, take or change something another thread uses.
SharedStep ==
    \/ \E t \in Callers : connect(t)
    \/ \E t \in Callers : send_command(t)
    \/ \E t \in Callers : resize(t)
    \/ \E t \in Callers : disconnect(t)
    \/ \E t \in Callers : sftp(t)
    \/ \E i \in ChannelIds : Reader(i)
    \/ \E i \in ChannelIds : Remote(i)

Next == LocalStep \/ SharedStep

Spec == Init /\ [][Next]_vars

\* Spec connects every session directly; JumpSpec also connects through a jump host.
JumpNext == Next \/ \E t \in Callers : ConnectJump(t)

JumpSpec == Init /\ [][JumpNext]_vars

\* Threads that can run do run; nothing obliges the UI to start a call.
Continue(t) ==
    \/ ConnectInsert(t)
    \/ SendSetBlocking(t) \/ SendLockChannel(t) \/ SendWriteByte(t)
    \/ SendFlushed(t) \/ SendLockSession(t) \/ SendRestore(t)
    \/ ResizeSetBlocking(t) \/ ResizeRequest(t) \/ ResizeRestore(t)
    \/ DisconnectMark(t) \/ DisconnectSetBlocking(t) \/ DisconnectLockChannel(t)
    \/ DisconnectWriteByte(t) \/ DisconnectWritten(t) \/ DisconnectClose(t)
    \/ SftpLockInner(t) \/ SftpInit(t) \/ SftpVerb(t)
    \/ Finish(t)

\* A thread that can run again and again does run: a step that waits for another
\* thread's pending local step is disabled in between, hence strong fairness.
FairSpec ==
    /\ Spec
    /\ \A t \in Callers : SF_vars(Continue(t))
    /\ \A i \in ChannelIds : SF_vars(Reader(i) \/ ReaderLocal(i))

\* FairSpec, and every call into the SSH library returns: the remote ends a read
\* that waits (data, close or a transport error), again and again if need be.
IoReturnsSpec ==
    /\ FairSpec
    /\ \A i \in ChannelIds : SF_vars(Remote(i))

\* ------------------------------------------------------------------ claims

DispatchOps == {"send", "resize", "sftp"}

\* Caller t takes the first step of a call in this step.
Starts(t) == pc[t] = "idle" /\ pc'[t] # "idle"

ClosedCount(i) == Len(SelectSeq(events[i], LAMBDA e : e.topic = "pty_closed"))
ReaderDone(i) == rpc[i] \in {"done_flag", "done_eof", "done_err"}

\* C2: when a session is over (its entry removed by a disconnect that has returned,
\* its reader thread ended), exactly one pty_closed was emitted for its id.
C2_ExactlyOneClosed ==
    \A i \in ChannelIds :
        (i \in disconnected /\ ReaderDone(i)) => ClosedCount(i) = 1

Disconnecting(i) == \E t \in Callers : op[t] = "disconnect" /\ cid[t] = i

\* C3: after the reader thread has ended on remote EOF, a registered id is
\* eventually removed from the registry without any disconnect call.
C3_EofEventuallyRemoved ==
    \A i \in ChannelIds :
        [](rpc[i] = "done_eof" /\ i \in channels
              => <>(i \notin channels \/ Disconnecting(i)))

\* C4: a send, resize or SFTP call that starts on a session whose alive flag is
\* false is not served: its lookup fails as for a removed session.
C4_DeadSessionNotServed ==
    [][\A t \in Callers :
          (/\ Starts(t)
           /\ op'[t] \in DispatchOps
           /\ cid'[t] \in ChannelIds
           /\ ~alive[cid'[t]])
              => (pc'[t] = "returned" /\ ret'[t] = "SessionNotFound")]_vars

OutputData(i) ==
    LET o == SelectSeq(events[i], LAMBDA e : e.topic = "pty_output")
    IN  [k \in 1..Len(o) |-> o[k].data]
Expected(reads) == [k \in 1..Len(reads) |-> Utf8Lossy(reads[k])]

\* C6: the pty_output events of an id are the lossy-decoded non-empty reads of
\* its reader thread, one event per read and in read order; only the read that
\* is being emitted is still missing.
C6_OutputMatchesReads ==
    \A i \in ChannelIds :
        IF rpc[i] = "output"
        THEN /\ readLog[i] # <<>>
             /\ readBuf[i] = readLog[i][Len(readLog[i])]
             /\ OutputData(i) = Expected(SubSeq(readLog[i], 1, Len(readLog[i]) - 1))
        ELSE OutputData(i) = Expected(readLog[i])

C6_Witness ==
    \E i \in ChannelIds :
        /\ Len(readLog[i]) = 2
        /\ OutputData(i) = << <<65>>, <<65533, 66>> >>

Writers(i) == {t \in Callers : pc[t] \in {"send_write", "disc_write"} /\ cid[t] = i}
InFlightCalls == {callNo[t] : t \in {u \in Callers : pc[u] \in {"send_write", "disc_write"}}}

\* C7 as stated: at most one write is in flight on a channel and, whenever none
\* is, the wire holds whole payloads only, one after the other.
C7_WholePayloadsOnly ==
    \A i \in ChannelIds :
        LET w == wire[i] IN
        /\ Cardinality(Writers(i)) <= 1
        /\ Writers(i) = {} =>
              \A p \in 1..Len(w) :
                  /\ \/ w[p].i = 1
                     \/ p > 1 /\ w[p - 1].call = w[p].call /\ w[p - 1].i = w[p].i - 1
                  /\ (p = Len(w) \/ w[p + 1].i = 1) => w[p].i = PayloadLen

\* C7 as amended: at most one write is in flight on a channel, every byte on the
\* wire continues the payload of the call that wrote the byte before it or starts
\* a payload, no payload is on the wire twice, and a payload that stops short
\* belongs to the write in flight or to a write that returned an I/O error.
C7_WritesNotTorn ==
    \A i \in ChannelIds :
        LET w == wire[i] IN
        /\ Cardinality(Writers(i)) <= 1
        /\ \A p \in 1..Len(w) :
              \/ w[p].i = 1
              \/ p > 1 /\ w[p - 1].call = w[p].call /\ w[p - 1].i = w[p].i - 1
        /\ \A p, q \in 1..Len(w) : w[p] = w[q] => p = q
        /\ \A p \in 1..Len(w) :
              (p = Len(w) \/ w[p + 1].i = 1)
                  => \/ w[p].i = PayloadLen
                     \/ w[p].call \in ioFailed
                     \/ w[p].call \in InFlightCalls

C7_Witness ==
    \E i \in ChannelIds :
        /\ Len(wire[i]) = 2 * PayloadLen
        /\ wire[i][1].call # wire[i][Len(wire[i])].call
        /\ ioFailed = {}
        /\ Writers(i) = {}

SendResizePcs ==
    {"send_block", "send_lock", "send_write", "send_restore", "send_unblock",
     "resize_block", "resize_request", "resize_restore"}

\* C8: a registered session on which no send and no resize is in progress is in
\* non-blocking mode.
C8_NonBlockingAtRest ==
    \A i \in channels :
        (~\E t \in Callers : cid[t] = i /\ pc[t] \in SendResizePcs) => ~blocking[i]

\* C9: the reader thread performs no channel read while the session is in
\* blocking mode.
C9_ReaderNeverReadsBlocking ==
    [][\A i \in ChannelIds :
          (rpc[i] = "read" /\ rpc'[i] # "read") => ~blocking[i]]_vars

IoPcs == {"send_write", "resize_request", "disc_write", "disc_close", "sftp_init"}

\* C10: a caller that is about to perform channel or session I/O does not hold the
\* registry mutex.
C10_NoIoUnderRegistryLock ==
    \A t \in Callers : pc[t] \in IoPcs => regLock # t

\* C11: no thread holds the session mutex and the channel mutex of a session at
\* the same time (so none takes the session mutex while it holds the channel's).
C11_NeverBothMutexes ==
    \A i \in ChannelIds : \A t \in Callers : ~(sessLock[i] = t /\ chanLock[i] = t)

\* C12: a disconnect that starts on an id that is not in the registry returns
\* SessionNotFound and leaves the registry as it is.
C12_DisconnectMissingNotFound ==
    [][\A t \in Callers :
          (Starts(t) /\ op'[t] = "disconnect" /\ cid'[t] \notin channels)
              => (/\ pc'[t] = "returned"
                  /\ ret'[t] = "SessionNotFound"
                  /\ channels' = channels)]_vars

\* C13: once a disconnect has removed a session and set its alive flag to false,
\* the reader thread of the session eventually ends, and it starts no further
\* read after a loop-head check that found the flag false.
C13_ReaderStopsAfterDisconnect ==
    /\ \A i \in ChannelIds :
          [](i \in known /\ i \notin channels /\ ~alive[i] => <>ReaderDone(i))
    /\ [][\A i \in ChannelIds :
            (rpc[i] = "check" /\ rpc'[i] = "read") => alive[i]]_vars

SftpErrors == {"ChannelError", "IoError"}

\* C14: no step of an SFTP call changes the registry, an alive flag or a blocking
\* mode, whether the call fails or not, and a send that starts on a registered id
\* is dispatched to the session.
C14_FailedSftpLeavesSession ==
    /\ [][\A t \in Callers :
            (op'[t] = "sftp" /\ pc'[t] # pc[t])
                => (channels' = channels /\ alive' = alive /\ blocking' = blocking)]_vars
    /\ [][\A t \in Callers :
            (Starts(t) /\ op'[t] = "send" /\ cid'[t] \in channels)
                => pc'[t] = "send_block"]_vars

C14_Witness ==
    \E t \in Callers :
        /\ pc[t] = "returned"
        /\ op[t] = "sftp"
        /\ ret[t] \in SftpErrors
        /\ cid[t] \in channels
        /\ alive[cid[t]]
        /\ ~blocking[cid[t]]

\* C15: a registered session has an authenticated SSH session with its target host.
C15_RegisteredIsAuthenticated ==
    \A i \in channels : targetAuth[i]

\* Who produced the k-th chunk the reader thread of session i reads.  On the jump
\* path the channel is the jump host's shell: what it printed before the typed ssh
\* command took over (prompt, echo of the command line, password prompt) comes
\* first, and everything does when the target refused the login.
ChunkOrigin(i, k) ==
    IF via[i] = "jump" /\ (k = 1 \/ ~targetAuth[i]) THEN "bastion" ELSE "target"

\* C16: every pty_output event of a session connected through a jump host carries
\* output of the target host, the first one included.
C16_JumpOutputIsTargets ==
    \A i \in ChannelIds :
        via[i] = "jump" => \A k \in 1..Len(OutputData(i)) : ChunkOrigin(i, k) = "target"

\* C17: a download that fails returns ChannelError for every remote-side error (the
\* remote open, a remote read in mid-transfer) and IoError for every local-side error
\* (creating or writing the local file); a failed remote open leaves the local file
\* untouched, and a later failure leaves the created local file in place.
RemoteCauses == {"remote_open", "remote_read"}
LocalCauses == {"local_create", "local_write"}
C17_DownloadErrorKinds ==
    /\ [](xfer.op = "download" /\ xfer.pc = "returned" /\ xfer.ret # "Ok" =>
            /\ xfer.cause \in RemoteCauses => xfer.ret = "ChannelError"
            /\ xfer.cause \in LocalCauses => xfer.ret = "IoError")
    /\ [][/\ xfer'.cause = "remote_open" => localFs' = localFs
          /\ xfer'.cause \in {"remote_read", "local_write"} => localFs'["file"].exists]_vars

\* C18: a download of "src" followed by an upload to "dst", both returning Ok, leaves
\* "dst" byte-identical to "src", and both calls return the length of the file.
C18_RoundTripIdentical ==
    (/\ xfer.pc = "returned" /\ xfer.op = "upload" /\ xfer.ret = "Ok"
     /\ xfer.prev.op = "download" /\ xfer.prev.ret = "Ok")
    => /\ remoteFs["dst"] = remoteFs["src"]
       /\ xfer.total = Len(remoteFs["src"].data)
       /\ xfer.prev.total = Len(remoteFs["src"].data)
C18_Witness ==
    /\ xfer.pc = "returned" /\ xfer.op = "upload" /\ xfer.ret = "Ok"
    /\ xfer.prev.op = "download" /\ xfer.prev.ret = "Ok"
    /\ Len(remoteFs["src"].data) = MaxFileLen
    /\ remoteFs["dst"].exists

\* C19: the entries returned by list_dir have every directory before every file, the
\* names of each of the two groups in ascending order of their lower-cased form, and
\* are a permutation of the entries that readdir returned.
LexLeq(u, v) ==
    \/ Len(u) <= Len(v) /\ \A i \in 1..Len(u) : u[i] = v[i]
    \/ \E k \in 1..Len(u) :
          /\ k <= Len(v)
          /\ \A i \in 1..(k - 1) : u[i] = v[i]
          /\ u[k] < v[k]
Occurrences(list, e) == Cardinality({i \in DOMAIN list : list[i] = e})
C19_ListingSorted ==
    listing.done =>
        LET out == listing.entries IN
        /\ \A i, j \in DOMAIN out : out[i].is_dir /\ ~out[j].is_dir => i < j
        /\ \A i, j \in DOMAIN out :
              i < j /\ out[i].is_dir = out[j].is_dir
                  => LexLeq(ToLowercase(out[i].name), ToLowercase(out[j].name))
        /\ Len(out) = Len(dir_entries)
        /\ \A e \in DirEntries : Occurrences(out, e) = Occurrences(dir_entries, e)
C19_Witness ==
    /\ listing.done
    /\ Len(dir_entries) = MaxEntries
    /\ listing.entries # dir_entries
    /\ \E i, j \in DOMAIN dir_entries :
          /\ i < j /\ ~dir_entries[i].is_dir /\ dir_entries[j].is_dir
    /\ \E i, j \in DOMAIN dir_entries :
          /\ ~dir_entries[i].is_dir /\ ~dir_entries[j].is_dir
          /\ dir_entries[i].name = <<66>> /\ dir_entries[j].name = <<97>>

\* C20 as stated: get_parent_path agrees with the rule that gives None for "" and "/",
\* otherwise trims exactly one trailing slash and returns "/" when the last '/' is at
\* index 0 or absent, else the prefix before the last '/'.
RuleParent(p0) ==
    IF p0 = <<>> \/ p0 = <<"/">> THEN OptNone
    ELSE LET p == IF p0[Len(p0)] = "/" THEN SubSeq(p0, 1, Len(p0) - 1) ELSE p0
             at == {i \in 1..Len(p) : p[i] = "/"}
         IN  IF at = {} \/ at = {1} THEN OptSome(<<"/">>)
             ELSE OptSome(SubSeq(p, 1, (CHOOSE i \in at : \A j \in at : j <= i) - 1))
C20_AgreesWithRule == parent # Unset => parent = RuleParent(path)

\* C20, amended: get_parent_path removes every trailing slash; a path that is then empty
\* has no parent; otherwise the parent is "/" when the last '/' is at index 0 or absent,
\* else the prefix before the last '/'. The five examples hold.
Stem(p) ==
    LET n == CHOOSE k \in 0..Len(p) :
                 /\ k = 0 \/ p[k] # "/"
                 /\ \A i \in (k + 1)..Len(p) : p[i] = "/"
    IN  SubSeq(p, 1, n)
C20_ParentPath ==
    parent # Unset =>
        /\ LET stem == Stem(path)
               at == {i \in 1..Len(stem) : stem[i] = "/"}
           IN  /\ stem = <<>> => parent = OptNone
               /\ stem # <<>> /\ (at = {} \/ at = {1}) => parent = OptSome(<<"/">>)
               /\ stem # <<>> /\ at # {} /\ at # {1} =>
                     \E i \in at :
                        /\ \A j \in at : j <= i
                        /\ parent = OptSome(SubSeq(stem, 1, i - 1))
        /\ path = <<"/">> => parent = OptNone
        /\ path = <<"/", "a">> => parent = OptSome(<<"/">>)
        /\ path = <<"/", "a", "/", "b">> => parent = OptSome(<<"/", "a">>)
        /\ path = <<"/", "a", "/", "b", "/">> => parent = OptSome(<<"/", "a">>)
        /\ path = <<"a">> => parent = OptSome(<<"/">>)
C20_Witness ==
    /\ path = <<"/", "a", "/", "/">>
    /\ parent = OptSome(<<"/">>)

\* C21: format_permissions on 0..511 is a bijection onto the 512 strings of nine
\* characters whose position i is the i-th character of "rwxrwxrwx" or '-', with
\* position i set exactly when bit 0o400 >> (i-1) of the mode is set; and for every
\* mode m, format_permissions(m) = format_permissions(m mod 512).
RwxPattern == <<"r", "w", "x", "r", "w", "x", "r", "w", "x">>
LowModes == 0..511
PermStrings == {[i \in 1..9 |-> IF set[i] THEN RwxPattern[i] ELSE "-"] : set \in [1..9 -> BOOLEAN]}
C21_PermissionsBijective ==
    permissions # <<>> =>
        /\ permissions \in PermStrings
        /\ \A i \in 1..9 :
              (permissions[i] = RwxPattern[i]) <=> ((perm \div Pow2(9 - i)) % 2 = 1)
        /\ permissions = FormatPermissions(perm % 512)
        /\ \A m \in LowModes : FormatPermissions(m) = permissions => m = perm % 512
        /\ {FormatPermissions(m) : m \in LowModes} = PermStrings
C21_Witness ==
    /\ perm = 512 + 493
    /\ permissions = <<"r", "w", "x", "r", "-", "x", "r", "-", "x">>

\* C22: a successful sftp_list_dir(channelId, "~") returns a current_path that does not
\* end with '/', a parent_path that is set, and entries with the directories first, for
\* every home directory the server reports and also when realpath(".") fails.
C22_HomeListing ==
    listing.done /\ list_path = <<"~">> =>
        /\ listing.current_path # <<>>
        /\ listing.current_path[Len(listing.current_path)] # "/"
        /\ listing.parent_path.some
        /\ \A i, j \in DOMAIN listing.entries :
              listing.entries[i].is_dir /\ ~listing.entries[j].is_dir => i < j

\* C23: under every interleaving of a reader thread with send, resize and disconnect,
\* at most one pty_closed is emitted for an id, and no pty_output of that id follows
\* its pty_closed: a pty_closed is the last event of its id.
C23_ClosedOnceAndLast ==
    \A i \in ChannelIds :
        /\ ClosedCount(i) <= 1
        /\ \A k \in 1..Len(events[i]) :
              events[i][k].topic = "pty_closed" => k = Len(events[i])
C23_Witness ==
    \E i \in known \ channels :
        /\ Len(events[i]) >= 2
        /\ events[i][1].topic = "pty_output"
        /\ events[i][Len(events[i])].topic = "pty_closed"
        /\ ReaderDone(i)
        /\ wire[i] # <<>>

\* C24: every pty_output and pty_closed event is emitted while its id is in the
\* registry: none before connect has inserted the id, none after the disconnect of
\* the id has returned.
C24_EventsOnlyWhileRegistered ==
    [][\A i \in ChannelIds : events'[i] # events[i] => i \in channels]_vars

\* C25: on WouldBlock, on Interrupted and on a zero-length read that is not EOF the
\* reader loop changes neither alive nor the events and goes back to the loop head; it
\* exits only from the loop head with alive false, or after a zero-length read at EOF,
\* or after another read error, and in the last two cases alive is false and pty_closed
\* is the last event of the id when it exits.
ReaderExits(i) == ~ReaderDone(i) /\ ReaderDone(i)'
C25_ReaderLoopExits ==
    [][\A i \in ChannelIds :
          /\ (rpc[i] \in {"read", "zero"} /\ rpc'[i] = "check")
                => alive'[i] = alive[i] /\ events'[i] = events[i]
          /\ (ReaderExits(i) /\ rpc'[i] = "done_flag") => rpc[i] = "check" /\ ~alive[i]
          /\ (ReaderExits(i) /\ rpc'[i] = "done_eof") => rpc[i] = "eof_emit"
          /\ (ReaderExits(i) /\ rpc'[i] = "done_err") => rpc[i] = "err_emit"
          /\ (ReaderExits(i) /\ rpc'[i] # "done_flag")
                => /\ ~alive'[i]
                   /\ events'[i] # <<>>
                   /\ events'[i][Len(events'[i])] = PtyClosed
          /\ rpc'[i] = "eof_mark" => rpc[i] = "zero"
          /\ rpc'[i] = "err_mark" => rpc[i] \in {"read", "blocked", "err_mark"}
          /\ rpc'[i] = "eof_emit" => rpc[i] \in {"eof_mark", "eof_emit"}
          /\ rpc'[i] = "err_emit" => rpc[i] \in {"err_mark", "err_emit"}]_vars
C25_Witness ==
    \E i \in channels :
        /\ rpc[i] = "done_eof"
        /\ ~alive[i]
        /\ events[i] = <<PtyClosed>>

\* C26: on one channel a read or eof() of the reader thread never overlaps a write,
\* flush, window-change, send_eof or wait_close of send, resize or disconnect: a caller
\* inside such a call holds the channel mutex, a reader inside a read holds it, and
\* each of the reader's and resize's one-step calls starts with the mutex free.
ChannelIoPcs == {"send_write", "send_restore", "send_unblock", "disc_write", "disc_close"}
C26_ChannelIoExclusive ==
    /\ [](\A i \in ChannelIds :
            /\ \A t \in Callers : pc[t] \in ChannelIoPcs /\ cid[t] = i => chanLock[i] = t
            /\ rpc[i] = "blocked" => chanLock[i] = ReaderThread)
    /\ [][\A i \in ChannelIds :
            /\ (rpc[i] \in {"read", "zero"} /\ rpc'[i] # rpc[i]) => chanLock[i] = None
            /\ \A t \in Callers :
                  (pc[t] = "resize_request" /\ pc'[t] # pc[t] /\ cid[t] = i)
                      => chanLock[i] = None]_vars
C26_Witness ==
    \E i \in ChannelIds : \E t \in Callers :
        /\ rpc[i] = "blocked"
        /\ pc[t] = "send_lock"
        /\ cid[t] = i

\* C27: a send or resize holds the session mutex from its switch to blocking until
\* its switch back to non-blocking, so that inside this window the caller owns the
\* session mutex and the session is still in blocking mode.
BlockingWindowPcs ==
    {"send_lock", "send_write", "send_restore", "send_unblock",
     "resize_request", "resize_restore"}
C27_SessionLockHeldInWindow ==
    \A t \in Callers :
        pc[t] \in BlockingWindowPcs =>
            /\ sessLock[cid[t]] = t
            /\ blocking[cid[t]]

\* C28: an SFTP verb works under the session's locks: while it uses the Sftp handle it
\* owns the session mutex, and no other thread is inside a channel write, a resize, a
\* blocking-mode switch or a channel read on the same session.
SessionBusyPcs ==
    {"send_write", "send_unblock", "resize_request", "resize_restore",
     "disc_block", "disc_write", "disc_close"}
C28_SftpVerbUnderLocks ==
    \A t \in Callers :
        pc[t] = "sftp_verb" =>
            /\ sessLock[cid[t]] = t
            /\ \A u \in Callers \ {t} : cid[u] = cid[t] => pc[u] \notin SessionBusyPcs
            /\ rpc[cid[t]] # "blocked"

\* C29: a resize on a registered id whose window-change request fails returns PtyError,
\* the session is in non-blocking mode when the error is returned, and no step of the
\* resize changes the registry or an alive flag.
C29_FailedResizeRestores ==
    /\ [](\A t \in Callers :
            (pc[t] = "returned" /\ op[t] = "resize" /\ result[t] = "err") =>
                /\ ret[t] = "PtyError"
                /\ ~blocking[cid[t]])
    /\ [][\A t \in Callers :
            (op'[t] = "resize" /\ pc'[t] # pc[t]) =>
                channels' = channels /\ alive' = alive]_vars
C29_Witness ==
    \E t \in Callers :
        /\ pc[t] = "returned" /\ op[t] = "resize" /\ result[t] = "err"
        /\ ret[t] = "PtyError"
        /\ cid[t] \in channels
        /\ alive[cid[t]]
        /\ ~blocking[cid[t]]

\* C30: a disconnect returns Ok whatever its channel I/O did; when a disconnect of a
\* registered id returns, the id is out of the registry and its alive flag is false;
\* and from before its first shutdown I/O step on, the flag is false.
ShutdownPcs == {"disc_block", "disc_lock", "disc_write", "disc_close"}
C30_DisconnectAlwaysOk ==
    \A t \in Callers :
        /\ (pc[t] = "returned" /\ op[t] = "disconnect") => ret[t] = "Ok"
        /\ (pc[t] = "returned" /\ op[t] = "disconnect" /\ cid[t] \in known) =>
              cid[t] \notin channels /\ ~alive[cid[t]]
        /\ pc[t] \in ShutdownPcs => cid[t] \notin channels /\ ~alive[cid[t]]
C30_Witness ==
    \E t \in Callers :
        /\ pc[t] = "returned" /\ op[t] = "disconnect" /\ ret[t] = "Ok"
        /\ callNo[t] \in ioFailed
        /\ cid[t] \in disconnected
        /\ ~alive[cid[t]]

\* C31: a connect that fails returns ConnectionFailed and its steps leave the registry,
\* the reader threads and the events as they were; a connect that has spawned its
\* reader thread does not fail any more, so every reader thread belongs to an id that
\* is being inserted or was inserted.
ConnectReturns(t) == op'[t] = "connect" /\ pc[t] # "returned" /\ pc'[t] = "returned"
C31_FailedConnectNoEffect ==
    /\ [][\A t \in Callers :
            /\ (ConnectReturns(t) /\ ret'[t] # "Ok") =>
                  /\ ret'[t] = "ConnectionFailed"
                  /\ channels' = channels /\ known' = known /\ issued' = issued
                  /\ rpc' = rpc /\ alive' = alive /\ events' = events
            /\ (ConnectReturns(t) /\ pc[t] = "conn_insert") => ret'[t] = "Ok"]_vars
    /\ [](\A i \in ChannelIds :
            rpc[i] # "none" =>
                \/ i \in known
                \/ \E t \in Callers : pc[t] = "conn_insert" /\ cid[t] = i)
C31_Witness ==
    \E t \in Callers :
        /\ pc[t] = "returned" /\ op[t] = "connect" /\ ret[t] = "ConnectionFailed"
        /\ channels # {}
        /\ \A i \in ChannelIds : rpc[i] # "none" => i \in known

\* C32 as stated: the alive flag of a session is true at the step that inserts the
\* session into the registry, and a flag that is false is never set to true again.
C32_AliveTrueAtInsert ==
    [][\A i \in ChannelIds :
          /\ (i \notin channels /\ i \in channels') => alive'[i]
          /\ (i \in issued /\ ~alive[i]) => ~alive'[i]]_vars

\* C32, amended: the flag is set to true when the session is created, before its
\* reader thread runs, so the flag of every id in the registry has been true at some
\* point; after that it changes only from true to false.
C32_AliveOnlyFalls ==
    /\ [][\A i \in ChannelIds :
            /\ (i \notin issued /\ i \in issued') => alive'[i] /\ rpc[i] = "none"
            /\ (i \in issued /\ ~alive[i]) => ~alive'[i]
            /\ (~alive[i] /\ alive'[i]) => i \notin issued /\ i \in issued']_vars
    /\ [](channels \subseteq issued)
C32_Witness ==
    \E t \in Callers :
        /\ pc[t] = "returned" /\ op[t] = "connect" /\ ret[t] = "Ok"
        /\ cid[t] \in channels
        /\ ~alive[cid[t]]
        /\ cid[t] \notin disconnected

\* The threads of the program: the caller threads, and after them the reader
\* thread of each session.
ReaderOf(i) == NumCallers + i
Threads == Callers \cup {ReaderOf(i) : i \in ChannelIds}

\* The thread that holds mutex m of session i (None: nobody).
HolderOf(m, i) == IF m = ReaderThread THEN ReaderOf(i) ELSE m

SessionWaits == {"send_block", "send_restore", "resize_block", "resize_restore",
                 "disc_block", "sftp_lock"}
ChannelWaits == {"send_lock", "resize_request", "disc_lock"}

\* The thread whose mutex thread a is about to take (None: a takes no mutex next,
\* or the mutex is free).
WaitsFor(a) ==
    IF a \in Callers
    THEN CASE pc[a] = "conn_insert" -> regLock
           [] pc[a] \in SessionWaits -> HolderOf(sessLock[cid[a]], cid[a])
           [] pc[a] \in ChannelWaits -> HolderOf(chanLock[cid[a]], cid[a])
           [] OTHER -> None
    ELSE IF rpc[a - NumCallers] \in {"read", "zero"}
         THEN HolderOf(chanLock[a - NumCallers], a - NumCallers)
         ELSE None

RECURSIVE WaitChain(_, _)
WaitChain(a, n) ==
    IF n = 0 THEN a
    ELSE IF WaitChain(a, n - 1) = None THEN None ELSE WaitsFor(WaitChain(a, n - 1))

NoWaitCycle ==
    \A a \in Threads : \A n \in 1..Cardinality(Threads) : WaitChain(a, n) # a

\* C33: no reachable state has threads that wait on each other in a cycle over the
\* registry, session and channel mutexes, and, when every I/O call returns, every
\* call that has started eventually returns to the bridge.
C33_NoCycleEveryCallReturns ==
    /\ []NoWaitCycle
    /\ \A t \in Callers : [](pc[t] # "idle" => <>(pc[t] = "returned"))

\* A caller holds the registry and waits for the channel, whose holder, the reader
\* thread, waits in a read on the blocking session.
C33_Witness ==
    \E u \in Callers, i \in ChannelIds :
        /\ regLock = u
        /\ pc[u] \in ChannelWaits
        /\ WaitsFor(u) = ReaderOf(i)
        /\ rpc[i] = "blocked"
====
